---- MODULE Spec2Model ----
(***************************************************************************)
(* A model of crawlee.configuration.Configuration: the declarative table   *)
(* of settings (aliases in precedence order, type, default), the           *)
(* resolution of one Configuration from an environment mapping, and the    *)
(* global accessor Configuration.get_global_configuration on top of the    *)
(* service container's configuration slot.                                 *)
(*                                                                         *)
(* Strings whose characters matter (raw environment values, which are      *)
(* upper-cased, parsed as numbers or matched against tokens) are sequences *)
(* of one-character strings. Names used only as keys (field names,         *)
(* environment variable names, class names) are plain strings.             *)
(***************************************************************************)
EXTENDS Integers, Sequences, FiniteSets, TLC

VARIABLES
    env,        \* the environment: a function from the names that are set to raw values
    built,      \* SpecResolve: the outcome of constructing one Configuration from env
    heap,       \* the objects constructed so far; an object's identity is its index
    handle,     \* the service container's configuration slot: 0 (None) or an object id
    threads,    \* SpecConc: each caller's position and locals in get_global_configuration
    calls,      \* SpecSeq: number of completed get_global_configuration calls
    last,       \* SpecSeq: the last completed call: class, slot before, outcome
    hist        \* SpecSeq: history of the run (ghost state)

vars == <<env, built, heap, handle, threads, calls, last, hist>>

---------------------------------------------------------------------------
(* Bounds of the model *)

\* At most this many fields have any of their source names set in env (SpecResolve).
MaxFields == 1
\* Number of concurrent callers (SpecConc).
NumThreads == 2
\* get_global_configuration calls in one sequential run (SpecSeq).
MaxCalls == 3
\* Explicit set_configuration calls in one sequential run (SpecSeq).
MaxInstalls == 2

---------------------------------------------------------------------------
(* Characters and strings *)

LowerAlpha ==
    <<"a","b","c","d","e","f","g","h","i","j","k","l","m",
      "n","o","p","q","r","s","t","u","v","w","x","y","z">>

UpperAlpha ==
    <<"A","B","C","D","E","F","G","H","I","J","K","L","M",
      "N","O","P","Q","R","S","T","U","V","W","X","Y","Z">>

DigitChars == <<"0","1","2","3","4","5","6","7","8","9">>

\* str.upper() on one character (ASCII letters; everything else is kept).
CharUpper(c) ==
    IF \E i \in 1..Len(LowerAlpha) : LowerAlpha[i] = c
    THEN UpperAlpha[CHOOSE i \in 1..Len(LowerAlpha) : LowerAlpha[i] = c]
    ELSE c

\* str.lower() on one character.
CharLower(c) ==
    IF \E i \in 1..Len(UpperAlpha) : UpperAlpha[i] = c
    THEN LowerAlpha[CHOOSE i \in 1..Len(UpperAlpha) : UpperAlpha[i] = c]
    ELSE c

StrUpper(s) == [i \in 1..Len(s) |-> CharUpper(s[i])]

StrLower(s) == [i \in 1..Len(s) |-> CharLower(s[i])]

IsDigit(c) == \E i \in 1..Len(DigitChars) : DigitChars[i] = c

DigitVal(c) == (CHOOSE i \in 1..Len(DigitChars) : DigitChars[i] = c) - 1

IsDigits(s) == Len(s) > 0 /\ \A i \in 1..Len(s) : IsDigit(s[i])

RECURSIVE ParseNat(_)
ParseNat(s) ==
    IF s = <<>> THEN 0
    ELSE ParseNat(SubSeq(s, 1, Len(s) - 1)) * 10 + DigitVal(s[Len(s)])

---------------------------------------------------------------------------
(* Typed values of a Configuration *)

None == [t |-> "none"]
VBool(b) == [t |-> "bool", v |-> b]
VStr(s) == [t |-> "str", v |-> s]
VInt(n) == [t |-> "int", v |-> n]
\* A float mant * 10^-exp, with no trailing zero in the fraction.
VFloat(m, e) == [t |-> "float", mant |-> m, exp |-> e]
\* A timedelta, in milliseconds.
VTimedelta(ms) == [t |-> "timedelta", ms |-> ms]
\* A raw value that its field's type does not accept.
Invalid == [t |-> "invalid"]

RECURSIVE NormFloat(_, _)
NormFloat(m, e) ==
    IF e > 0 /\ m % 10 = 0 THEN NormFloat(m \div 10, e - 1) ELSE VFloat(m, e)

---------------------------------------------------------------------------
(* Coercion of a raw environment string to a field's declared type *)

TrueTokens ==
    { <<"1">>, <<"o","n">>, <<"t">>, <<"t","r","u","e">>, <<"y">>, <<"y","e","s">> }

FalseTokens ==
    { <<"0">>, <<"o","f","f">>, <<"f">>, <<"f","a","l","s","e">>, <<"n">>, <<"n","o">> }

\* bool: the truthy and falsy tokens, matched case-insensitively.
CoerceBool(raw) ==
    IF StrLower(raw) \in TrueTokens THEN VBool(TRUE)
    ELSE IF StrLower(raw) \in FalseTokens THEN VBool(FALSE)
    ELSE Invalid

\* int | None: a decimal integer, with an optional sign.
CoerceInt(raw) ==
    IF IsDigits(raw) THEN VInt(ParseNat(raw))
    ELSE IF Len(raw) > 1 /\ raw[1] = "-" /\ IsDigits(Tail(raw)) THEN VInt(0 - ParseNat(Tail(raw)))
    ELSE IF Len(raw) > 1 /\ raw[1] = "+" /\ IsDigits(Tail(raw)) THEN VInt(ParseNat(Tail(raw)))
    ELSE Invalid

\* Position of the decimal point in raw, 0 when there is none.
DotAt(raw) ==
    IF \E i \in 1..Len(raw) : raw[i] = "."
    THEN CHOOSE i \in 1..Len(raw) : raw[i] = "." /\ \A j \in 1..(i - 1) : raw[j] # "."
    ELSE 0

\* float: digits, or digits "." digits.
CoerceFloat(raw) ==
    LET d == DotAt(raw) IN
    IF d = 0
    THEN IF IsDigits(raw) THEN VFloat(ParseNat(raw), 0) ELSE Invalid
    ELSE LET whole == SubSeq(raw, 1, d - 1)
             frac == SubSeq(raw, d + 1, Len(raw))
         IN IF IsDigits(whole) /\ IsDigits(frac)
            THEN NormFloat(ParseNat(whole \o frac), Len(frac))
            ELSE Invalid

\* timedelta | None: a number is a count of seconds.
CoerceTimedelta(raw) ==
    IF IsDigits(raw) THEN VTimedelta(ParseNat(raw) * 1000) ELSE Invalid

\* timedelta_ms: a number is a count of milliseconds.
TimedeltaFromMs(raw) ==
    IF IsDigits(raw) THEN VTimedelta(ParseNat(raw)) ELSE Invalid

\* str and str | None: the raw string itself.
CoerceStr(raw) == VStr(raw)

sDEBUG == <<"D","E","B","U","G">>
sINFO == <<"I","N","F","O">>
sWARNING == <<"W","A","R","N","I","N","G">>
sERROR == <<"E","R","R","O","R">>
sCRITICAL == <<"C","R","I","T","I","C","A","L">>

\* Literal['DEBUG', 'INFO', 'WARNING', 'ERROR', 'CRITICAL']
LogLevels == { sDEBUG, sINFO, sWARNING, sERROR, sCRITICAL }

\* A variant of LogLevelBeforeValidator that passes the value through unchanged.
LogLevelBeforeValidatorNoUpper(value) == value

\* BeforeValidator(lambda value: str(value).upper())
LogLevelBeforeValidator(value) == StrUpper(value)

\* log_level: the before-validator, then membership in the Literal.
CoerceLogLevel(raw) ==
    LET value == LogLevelBeforeValidator(raw) IN
    IF value \in LogLevels THEN VStr(value) ELSE Invalid

Coerce(type, raw) ==
    CASE type = "bool" -> CoerceBool(raw)
      [] type = "opt_int" -> CoerceInt(raw)
      [] type = "float" -> CoerceFloat(raw)
      [] type = "opt_timedelta" -> CoerceTimedelta(raw)
      [] type = "timedelta_ms" -> TimedeltaFromMs(raw)
      [] type = "str" -> CoerceStr(raw)
      [] type = "opt_str" -> CoerceStr(raw)
      [] type = "log_level" -> CoerceLogLevel(raw)

---------------------------------------------------------------------------
(* The declared settings: for each field its type, its default and its    *)
(* validation aliases in the order AliasChoices lists them.               *)

sDefault == <<"d","e","f","a","u","l","t">>
sStorage == <<".","/","s","t","o","r","a","g","e">>

Descriptors ==
    [ internal_timeout |->
          [type |-> "opt_timedelta", default |-> None,
           sources |-> << "crawlee_internal_timeout" >>],
      verbose_log |->
          [type |-> "bool", default |-> VBool(FALSE),
           sources |-> << "crawlee_verbose_log" >>],
      default_browser_path |->
          [type |-> "opt_str", default |-> None,
           sources |-> << "apify_default_browser_path", "crawlee_default_browser_path" >>],
      disable_browser_sandbox |->
          [type |-> "bool", default |-> VBool(FALSE),
           sources |-> << "apify_disable_browser_sandbox", "crawlee_disable_browser_sandbox" >>],
      log_level |->
          [type |-> "log_level", default |-> VStr(sINFO),
           sources |-> << "apify_log_level", "crawlee_log_level" >>],
      default_dataset_id |->
          [type |-> "str", default |-> VStr(sDefault),
           sources |-> << "actor_default_dataset_id", "apify_default_dataset_id", "crawlee_default_dataset_id" >>],
      default_key_value_store_id |->
          [type |-> "str", default |-> VStr(sDefault),
           sources |-> << "actor_default_key_value_store_id", "apify_default_key_value_store_id", "crawlee_default_key_value_store_id" >>],
      default_request_queue_id |->
          [type |-> "str", default |-> VStr(sDefault),
           sources |-> << "actor_default_request_queue_id", "apify_default_request_queue_id", "crawlee_default_request_queue_id" >>],
      purge_on_start |->
          [type |-> "bool", default |-> VBool(TRUE),
           sources |-> << "apify_purge_on_start", "crawlee_purge_on_start" >>],
      write_metadata |->
          [type |-> "bool", default |-> VBool(TRUE),
           sources |-> << "crawlee_write_metadata" >>],
      persist_storage |->
          [type |-> "bool", default |-> VBool(TRUE),
           sources |-> << "apify_persist_storage", "crawlee_persist_storage" >>],
      persist_state_interval |->
          [type |-> "timedelta_ms", default |-> VTimedelta(1 * 60 * 1000),
           sources |-> << "apify_persist_state_interval_millis", "crawlee_persist_state_interval_millis" >>],
      system_info_interval |->
          [type |-> "timedelta_ms", default |-> VTimedelta(1 * 1000),
           sources |-> << "apify_system_info_interval_millis", "crawlee_system_info_interval_millis" >>],
      max_used_cpu_ratio |->
          [type |-> "float", default |-> VFloat(95, 2),
           sources |-> << "apify_max_used_cpu_ratio", "crawlee_max_used_cpu_ratio" >>],
      memory_mbytes |->
          [type |-> "opt_int", default |-> None,
           sources |-> << "actor_memory_mbytes", "apify_memory_mbytes", "crawlee_memory_mbytes" >>],
      available_memory_ratio |->
          [type |-> "float", default |-> VFloat(25, 2),
           sources |-> << "apify_available_memory_ratio", "crawlee_available_memory_ratio" >>],
      storage_dir |->
          [type |-> "str", default |-> VStr(sStorage),
           sources |-> << "apify_local_storage_dir", "crawlee_storage_dir" >>],
      chrome_executable_path |->
          [type |-> "opt_str", default |-> None,
           sources |-> << "apify_chrome_executable_path", "crawlee_chrome_executable_path" >>],
      headless |->
          [type |-> "bool", default |-> VBool(TRUE),
           sources |-> << "apify_headless", "crawlee_headless" >>],
      xvfb |->
          [type |-> "bool", default |-> VBool(FALSE),
           sources |-> << "apify_xvfb", "crawlee_xvfb" >>] ]

FieldSet == DOMAIN Descriptors

SourceSet(f) == { Descriptors[f].sources[i] : i \in 1..Len(Descriptors[f].sources) }

\* A variant of Winner in which the last alias that is set wins.
WinnerLast(f, e) ==
    LET src == Descriptors[f].sources
        present == { i \in 1..Len(src) : src[i] \in DOMAIN e }
    IN IF present = {} THEN ""
       ELSE src[CHOOSE i \in present : \A j \in present : j <= i]

\* AliasChoices: the aliases are tried in their declared order and the first
\* one that is set supplies the value; "" when none of them is set.
RECURSIVE FirstPresent(_, _, _)
FirstPresent(src, i, e) ==
    IF i > Len(src) THEN ""
    ELSE IF src[i] \in DOMAIN e THEN src[i]
    ELSE FirstPresent(src, i + 1, e)

Winner(f, e) == FirstPresent(Descriptors[f].sources, 1, e)

\* A variant of Resolve that leaves a field nobody supplies unset (None)
\* instead of giving it its declared default.
ResolveNoDefault(f, e) ==
    LET w == Winner(f, e) IN
    IF w = "" THEN None
    ELSE Coerce(Descriptors[f].type, e[w])

\* The value of field f in a Configuration built from e: the coerced value of
\* the winning alias, or the default when no alias is set (Invalid when the
\* winning raw value is not accepted).
Resolve(f, e) ==
    LET w == Winner(f, e) IN
    IF w = "" THEN Descriptors[f].default
    ELSE Coerce(Descriptors[f].type, e[w])

\* A variant of Construct that keeps the default of a field whose raw value
\* is not accepted instead of failing.
ConstructLenient(e) ==
    [status |-> "ok",
     values |-> [f \in FieldSet |->
                    IF Resolve(f, e).t = "invalid" THEN Descriptors[f].default
                    ELSE Resolve(f, e)],
     errors |-> {}]

\* Configuration(): every field is validated; one ValidationError lists every
\* field whose raw value was rejected (by the alias that supplied it), and
\* then no instance exists.
Construct(e) ==
    LET bad == { f \in FieldSet : Resolve(f, e).t = "invalid" } IN
    IF bad # {}
    THEN [status |-> "error",
          values |-> << >>,
          errors |-> { [loc |-> Winner(f, e), input |-> e[Winner(f, e)]] : f \in bad }]
    ELSE [status |-> "ok",
          values |-> [f \in FieldSet |-> Resolve(f, e)],
          errors |-> {}]

---------------------------------------------------------------------------
(* The environments explored *)

\* Raw values tried for a field of each type: accepted ones that coerce to
\* different values, and rejected ones.
RawFor(type) ==
    CASE type = "bool" -> { <<"T","r","u","e">>, <<"0">>, <<"x">> }
      [] type = "opt_int" -> { <<"5","1","2">>, <<"6","4">>, <<"a","b","c">> }
      [] type = "float" -> { <<"0",".","5">>, <<"1">>, <<"x">> }
      [] type = "opt_timedelta" -> { <<"3","0">>, <<"2">>, <<"x">> }
      [] type = "timedelta_ms" -> { <<"5","0","0","0">>, <<"0">>, <<"x">> }
      [] type = "str" -> { <<"a">>, <<"b">>, << >> }
      [] type = "opt_str" -> { <<"a">>, <<"b">>, << >> }
      [] type = "log_level" ->
             { <<"d","e","b","u","g">>, <<"D","e","b","u","g">>, sDEBUG,
               <<"i","n","f","o">>, <<"v","e","r","b","o","s","e">> }

\* Every setting of some of field f's source names.
FieldEnvs(f) ==
    UNION { [D -> RawFor(Descriptors[f].type)] : D \in SUBSET SourceSet(f) }

RECURSIVE EnvsOver(_)
EnvsOver(F) ==
    IF F = {} THEN { << >> }
    ELSE LET f == CHOOSE x \in F : TRUE
         IN { a @@ b : a \in FieldEnvs(f), b \in EnvsOver(F \ {f}) }

RECURSIVE FieldSubsets(_)
FieldSubsets(k) ==
    IF k = 0 THEN { {} }
    ELSE LET P == FieldSubsets(k - 1)
         IN P \cup { G \cup {f} : G \in P, f \in FieldSet }

\* The sets of at most MaxFields fields: the fields an environment supplies.
InputFields == FieldSubsets(MaxFields)

---------------------------------------------------------------------------
(* SpecResolve: one Configuration is constructed from an environment *)

NotBuilt == [status |-> "pending", values |-> << >>, errors |-> {}]

NoCall == [cls |-> "", before |-> 0, outcome |-> [kind |-> "none"]]

NoHist ==
    [first |-> 0, origin |-> "", reinstalls |-> 0, installs |-> 0,
     autoBuilt |-> 0, returned |-> {}, failed |-> {}]

InitResolve ==
    /\ \E F \in InputFields : env \in EnvsOver(F)
    /\ built = NotBuilt
    /\ heap = << >>
    /\ handle = 0
    /\ threads = << >>
    /\ calls = 0
    /\ last = NoCall
    /\ hist = NoHist

\* Configuration() is evaluated against the environment.
Instantiate ==
    /\ built.status = "pending"
    /\ built' = Construct(env)
    /\ UNCHANGED <<env, heap, handle, threads, calls, last, hist>>

NextResolve == Instantiate

SpecResolve == InitResolve /\ [][NextResolve]_vars

---------------------------------------------------------------------------
(* The documented table of settings, as the specification's section 6     *)
(* gives it: source names in precedence order, and defaults.              *)

DocumentedSources ==
    [ internal_timeout |-> << "crawlee_internal_timeout" >>,
      verbose_log |-> << "crawlee_verbose_log" >>,
      default_browser_path |->
          << "apify_default_browser_path", "crawlee_default_browser_path" >>,
      disable_browser_sandbox |->
          << "apify_disable_browser_sandbox", "crawlee_disable_browser_sandbox" >>,
      log_level |-> << "apify_log_level", "crawlee_log_level" >>,
      default_dataset_id |->
          << "actor_default_dataset_id", "apify_default_dataset_id",
             "crawlee_default_dataset_id" >>,
      default_key_value_store_id |->
          << "actor_default_key_value_store_id", "apify_default_key_value_store_id",
             "crawlee_default_key_value_store_id" >>,
      default_request_queue_id |->
          << "actor_default_request_queue_id", "apify_default_request_queue_id",
             "crawlee_default_request_queue_id" >>,
      purge_on_start |-> << "apify_purge_on_start", "crawlee_purge_on_start" >>,
      write_metadata |-> << "crawlee_write_metadata" >>,
      persist_storage |-> << "apify_persist_storage", "crawlee_persist_storage" >>,
      persist_state_interval |->
          << "apify_persist_state_interval_millis",
             "crawlee_persist_state_interval_millis" >>,
      system_info_interval |->
          << "apify_system_info_interval_millis",
             "crawlee_system_info_interval_millis" >>,
      max_used_cpu_ratio |->
          << "apify_max_used_cpu_ratio", "crawlee_max_used_cpu_ratio" >>,
      memory_mbytes |->
          << "actor_memory_mbytes", "apify_memory_mbytes", "crawlee_memory_mbytes" >>,
      available_memory_ratio |->
          << "apify_available_memory_ratio", "crawlee_available_memory_ratio" >>,
      storage_dir |-> << "apify_local_storage_dir", "crawlee_storage_dir" >>,
      chrome_executable_path |->
          << "apify_chrome_executable_path", "crawlee_chrome_executable_path" >>,
      headless |-> << "apify_headless", "crawlee_headless" >>,
      xvfb |-> << "apify_xvfb", "crawlee_xvfb" >> ]

DocumentedDefaults ==
    [ internal_timeout |-> None,
      verbose_log |-> VBool(FALSE),
      default_browser_path |-> None,
      disable_browser_sandbox |-> VBool(FALSE),
      log_level |-> VStr(<<"I","N","F","O">>),
      default_dataset_id |-> VStr(<<"d","e","f","a","u","l","t">>),
      default_key_value_store_id |-> VStr(<<"d","e","f","a","u","l","t">>),
      default_request_queue_id |-> VStr(<<"d","e","f","a","u","l","t">>),
      purge_on_start |-> VBool(TRUE),
      write_metadata |-> VBool(TRUE),
      persist_storage |-> VBool(TRUE),
      persist_state_interval |-> VTimedelta(60000),
      system_info_interval |-> VTimedelta(1000),
      max_used_cpu_ratio |-> VFloat(95, 2),
      memory_mbytes |-> None,
      available_memory_ratio |-> VFloat(25, 2),
      storage_dir |-> VStr(<<".","/","s","t","o","r","a","g","e">>),
      chrome_executable_path |-> None,
      headless |-> VBool(TRUE),
      xvfb |-> VBool(FALSE) ]

\* Some name of the list is set in e.
AnyPresent(names, e) == \E i \in 1..Len(names) : names[i] \in DOMAIN e

\* The name of the list that is set in e and has no set name before it.
Earliest(names, e) ==
    names[CHOOSE i \in 1..Len(names) :
              /\ names[i] \in DOMAIN e
              /\ \A j \in 1..(i - 1) : names[j] \notin DOMAIN e]

\* The construction has run.
Constructed == built.status # "pending"

---------------------------------------------------------------------------
(* Claims about the resolution of a Configuration (SpecResolve) *)

\* C6: for every field with two or more source names, the code declares the
\* documented names in the documented order (actor_* before apify_* before
\* crawlee_*), and whenever some of them are set, the resolved value is the
\* coercion of the raw value of the earliest one that is set; a raw value
\* under a later name changes nothing (not even whether construction fails).
C6_EarliestSourceWins ==
    \A f \in DOMAIN DocumentedSources :
        LET names == DocumentedSources[f] IN
        Len(names) >= 2 =>
            /\ f \in FieldSet
            /\ Descriptors[f].sources = names
            /\ (Constructed /\ AnyPresent(names, env)) =>
                   LET want == Coerce(Descriptors[f].type, env[Earliest(names, env)]) IN
                   IF want.t = "invalid"
                   THEN built.status = "error"
                   ELSE /\ built.status = "ok" => built.values[f] = want
                        /\ \A err \in built.errors :
                               \A i \in 1..Len(names) : err.loc # names[i]

\* C6 witness: all three source names of memory_mbytes are set, to raw values
\* that coerce to different integers, and the instance holds the first one's.
C6_Witness ==
    /\ built.status = "ok"
    /\ {"actor_memory_mbytes", "apify_memory_mbytes", "crawlee_memory_mbytes"}
           \subseteq DOMAIN env
    /\ env["actor_memory_mbytes"] = <<"6","4">>
    /\ env["apify_memory_mbytes"] = <<"5","1","2">>
    /\ env["crawlee_memory_mbytes"] = <<"a","b","c">>
    /\ built.values["memory_mbytes"] = VInt(64)

\* C7: a constructed Configuration has a value for each of the 20 documented
\* fields, and a field none of whose source names is set holds exactly its
\* documented default.
C7_DefaultsWhenUnset ==
    built.status = "ok" =>
        /\ DOMAIN built.values = DOMAIN DocumentedDefaults
        /\ Cardinality(DOMAIN built.values) = 20
        /\ \A f \in DOMAIN DocumentedDefaults :
               /\ built.values[f].t # "invalid"
               /\ ~AnyPresent(DocumentedSources[f], env) =>
                      built.values[f] = DocumentedDefaults[f]

\* C7 witness: an instance built from an environment that supplies nothing
\* holds the documented defaults, e.g. of log_level and purge_on_start.
C7_Witness ==
    /\ built.status = "ok"
    /\ DOMAIN env = {}
    /\ built.values["log_level"] = VStr(<<"I","N","F","O">>)
    /\ built.values["purge_on_start"] = VBool(TRUE)
    /\ built.values["persist_state_interval"] = VTimedelta(60000)

\* C8: the raw log_level is upper-cased before it is matched: "debug",
\* "Debug" and "DEBUG" all resolve to DEBUG, any raw value whose upper-cased
\* form is a member resolves to that member, any other raw value makes the
\* construction fail, and a constructed log_level is always a member.
C8_LogLevelUpperCased ==
    LET names == DocumentedSources["log_level"]
        members == { <<"D","E","B","U","G">>, <<"I","N","F","O">>,
                     <<"W","A","R","N","I","N","G">>, <<"E","R","R","O","R">>,
                     <<"C","R","I","T","I","C","A","L">> }
    IN /\ built.status = "ok" => built.values["log_level"].v \in members
       /\ (Constructed /\ AnyPresent(names, env)) =>
              LET raw == env[Earliest(names, env)] IN
              /\ raw \in { <<"d","e","b","u","g">>, <<"D","e","b","u","g">>,
                           <<"D","E","B","U","G">> }
                     => /\ built.status = "ok" =>
                               built.values["log_level"] = VStr(<<"D","E","B","U","G">>)
                        /\ \A err \in built.errors : err.loc \notin {names[1], names[2]}
              /\ StrUpper(raw) \in members
                     => /\ built.status = "ok" =>
                               built.values["log_level"] = VStr(StrUpper(raw))
                        /\ \A err \in built.errors : err.loc \notin {names[1], names[2]}
              /\ StrUpper(raw) \notin members => built.status = "error"

\* C8 witness: the mixed-case raw value "Debug" has resolved to DEBUG.
C8_Witness ==
    /\ built.status = "ok"
    /\ "crawlee_log_level" \in DOMAIN env
    /\ "apify_log_level" \notin DOMAIN env
    /\ env["crawlee_log_level"] = <<"D","e","b","u","g">>
    /\ built.values["log_level"] = VStr(<<"D","E","B","U","G">>)

\* C9: when the winning raw value of a field is not accepted by the field's
\* type, construction raises an error that identifies the field (by the source
\* name that supplied the value) and the raw value, and there is no instance:
\* no field values at all, neither a default for that field nor the others.
C9_CoercionFailureIsAtomic ==
    Constructed =>
        \A f \in FieldSet :
            (/\ AnyPresent(DocumentedSources[f], env)
             /\ Coerce(Descriptors[f].type,
                       env[Earliest(DocumentedSources[f], env)]).t = "invalid")
            => /\ built.status = "error"
               /\ built.values = << >>
               /\ \E err \in built.errors :
                      /\ err.loc = Earliest(DocumentedSources[f], env)
                      /\ err.input = env[err.loc]

\* C9 witness: memory_mbytes is bound to the non-numeric string "abc" and the
\* construction has failed.
C9_Witness ==
    /\ built.status = "error"
    /\ "apify_memory_mbytes" \in DOMAIN env
    /\ "actor_memory_mbytes" \notin DOMAIN env
    /\ env["apify_memory_mbytes"] = <<"a","b","c">>
    /\ \E err \in built.errors : err.loc = "apify_memory_mbytes"

---------------------------------------------------------------------------
(* Classes, objects and the service container's configuration slot *)

\* Configuration and two classes derived from it.
Classes == { "Configuration", "SubConfiguration", "OtherConfiguration" }

\* issubclass(a, b): both subclasses derive directly from Configuration.
IsSubclass(a, b) == a = b \/ b = "Configuration"

\* A variant of IsInstance that accepts every object.
IsInstanceAny(obj, cls) == TRUE

\* isinstance(global_instance, cls)
IsInstance(obj, cls) == IsSubclass(obj.cls, cls)

\* The object cls() yields from a successful construction.
NewObject(cls, values, origin) == [cls |-> cls, values |-> values, origin |-> origin]

\* service_container.get_configuration_if_set(): the slot, 0 standing for None.
ServiceGetIfSet(slot) == slot

\* service_container.set_configuration(x): x becomes the slot's content.
ServiceSet(slot, x) == x

\* service_container.get_configuration(), called with the slot filled.
ServiceGet(slot) == slot

\* What a call of get_global_configuration ends with.
Returned(id) == [kind |-> "return", obj |-> id]

\* A variant of TypeErrorOf whose message leaves out the class that was found.
TypeErrorRequestedOnly(cls, obj) ==
    [kind |-> "TypeError", requested |-> cls, found |-> ""]

\* raise TypeError(f'Requested global configuration object of type {cls},
\*     but {global_instance.__class__} was found')
TypeErrorOf(cls, obj) ==
    [kind |-> "TypeError", requested |-> cls, found |-> obj.cls]

\* The ValidationError of a failed cls() leaves the call.
ConstructionError(r) == [kind |-> "ValidationError", errors |-> r.errors]

\* A variant of GetGlobalConfiguration that constructs and installs cls() on
\* every call, whether or not the slot is filled.
GetGlobalAlwaysConstruct(cls, slot, objs, e) ==
    LET r == Construct(e) IN
    IF r.status = "error"
    THEN [handle |-> slot, heap |-> objs, outcome |-> ConstructionError(r)]
    ELSE LET objs1 == Append(objs, NewObject(cls, r.values, "auto"))
         IN [handle |-> Len(objs1), heap |-> objs1, outcome |-> Returned(Len(objs1))]

\* A variant of GetGlobalConfiguration that replaces a stored instance of the
\* wrong class by a fresh cls() instead of raising.
GetGlobalReplaceOnMismatch(cls, slot, objs, e) ==
    LET r == Construct(e)
        stale == slot # 0 /\ ~IsInstance(objs[slot], cls)
    IN IF (slot = 0 \/ stale) /\ r.status = "error"
       THEN [handle |-> slot, heap |-> objs, outcome |-> ConstructionError(r)]
       ELSE IF slot = 0 \/ stale
       THEN LET objs1 == Append(objs, NewObject(cls, r.values, "auto"))
            IN [handle |-> Len(objs1), heap |-> objs1, outcome |-> Returned(Len(objs1))]
       ELSE [handle |-> slot, heap |-> objs, outcome |-> Returned(slot)]

\* A variant of GetGlobalConfiguration that empties the slot when it raises
\* the TypeError.
GetGlobalResetOnMismatch(cls, slot, objs, e) ==
    LET r == Construct(e) IN
    IF slot = 0 /\ r.status = "error"
    THEN [handle |-> slot, heap |-> objs, outcome |-> ConstructionError(r)]
    ELSE LET objs1 == IF slot = 0
                      THEN Append(objs, NewObject(cls, r.values, "auto"))
                      ELSE objs
             slot1 == IF slot = 0 THEN Len(objs1) ELSE slot
         IN IF ~IsInstance(objs1[slot1], cls)
            THEN [handle |-> 0, heap |-> objs1,
                  outcome |-> TypeErrorOf(cls, objs1[slot1])]
            ELSE [handle |-> slot1, heap |-> objs1, outcome |-> Returned(slot1)]

\* Configuration.get_global_configuration, run without interruption on class
\* cls with the slot holding `slot`, the objects `objs` and the environment e:
\* the slot and the objects afterwards, and what the call ends with.
GetGlobalConfiguration(cls, slot, objs, e) ==
    LET unset == ServiceGetIfSet(slot) = 0
        r == Construct(e)
    IN IF unset /\ r.status = "error"
       THEN [handle |-> slot, heap |-> objs, outcome |-> ConstructionError(r)]
       ELSE LET objs1 == IF unset
                         THEN Append(objs, NewObject(cls, r.values, "auto"))
                         ELSE objs
                slot1 == IF unset THEN ServiceSet(slot, Len(objs1)) ELSE slot
                global_instance == ServiceGet(slot1)
            IN IF ~IsInstance(objs1[global_instance], cls)
               THEN [handle |-> slot1, heap |-> objs1,
                     outcome |-> TypeErrorOf(cls, objs1[global_instance])]
               ELSE [handle |-> slot1, heap |-> objs1,
                     outcome |-> Returned(global_instance)]

\* The environments the accessor runs in: one in which Configuration() succeeds
\* (nothing is set) and one in which it raises (a memory size that is no number).
AccessorEnvs ==
    { << >>,
      "crawlee_memory_mbytes" :> <<"a","b","c">> }

---------------------------------------------------------------------------
(* SpecSeq: one caller at a time; every call runs to its end *)

InitSeq ==
    /\ env \in AccessorEnvs
    /\ built = NotBuilt
    /\ heap = << >>
    /\ handle = 0
    /\ threads = << >>
    /\ calls = 0
    /\ last = NoCall
    /\ hist = NoHist

\* cls.get_global_configuration()
CallGetGlobalConfiguration(cls) ==
    /\ calls < MaxCalls
    /\ LET res == GetGlobalConfiguration(cls, handle, heap, env)
           installed == handle = 0 /\ res.handle # 0
       IN /\ handle' = res.handle
          /\ heap' = res.heap
          /\ last' = [cls |-> cls, before |-> handle, outcome |-> res.outcome]
          /\ hist' = [hist EXCEPT
                 !.first = IF installed THEN res.handle ELSE @,
                 !.origin = IF installed THEN "auto" ELSE @,
                 !.autoBuilt = @ + (Len(res.heap) - Len(heap)),
                 !.returned = IF res.outcome.kind = "return"
                              THEN @ \cup {res.outcome.obj} ELSE @,
                 !.failed = IF res.outcome.kind # "return"
                            THEN @ \cup {res.outcome.kind} ELSE @]
    /\ calls' = calls + 1
    /\ UNCHANGED <<env, built, threads>>

\* service_container.set_configuration(cls()): a caller builds an instance of
\* its own and installs it.
CallSetConfiguration(cls) ==
    /\ hist.installs < MaxInstalls
    /\ Construct(env).status = "ok"
    /\ heap' = Append(heap, NewObject(cls, Construct(env).values, "explicit"))
    /\ handle' = ServiceSet(handle, Len(heap'))
    /\ hist' = [hist EXCEPT
           !.installs = @ + 1,
           !.first = IF handle = 0 THEN Len(heap') ELSE @,
           !.origin = IF handle = 0 THEN "explicit" ELSE @,
           !.reinstalls = IF handle = 0 THEN @ ELSE @ + 1]
    /\ UNCHANGED <<env, built, threads, calls, last>>

\* The environment changes between two calls.
SetEnviron(e) ==
    /\ e # env
    /\ env' = e
    /\ UNCHANGED <<built, heap, handle, threads, calls, last, hist>>

NextSeq ==
    \/ \E cls \in Classes : CallGetGlobalConfiguration(cls)
    \/ \E cls \in Classes : CallSetConfiguration(cls)
    \/ \E e \in AccessorEnvs : SetEnviron(e)

SpecSeq == InitSeq /\ [][NextSeq]_vars

---------------------------------------------------------------------------
(* Claims about the global accessor, one caller at a time (SpecSeq) *)

\* The class of the object the slot held when the last call began.
StoredClassBefore == heap[last.before].cls

\* C2: with one caller at a time, automatic construction happens at most once,
\* a filled slot is never emptied again, and unless a caller installs another
\* instance through the setter, the slot keeps the instance that first filled
\* it (by a get or by an explicit set) and every successful
\* get_global_configuration has returned that very object.
C2_StoredInstanceStable ==
    /\ hist.autoBuilt <= 1
    /\ hist.first # 0 => handle # 0
    /\ handle = 0 => hist.returned = {}
    /\ (handle # 0 /\ hist.reinstalls = 0) =>
           /\ handle = hist.first
           /\ hist.returned \subseteq {hist.first}

\* C2 witness: the first get constructed the instance and a later get, begun
\* with the slot filled, returned that same object again.
C2_Witness ==
    /\ calls >= 2
    /\ hist.origin = "auto"
    /\ hist.reinstalls = 0
    /\ last.before = hist.first
    /\ last.outcome.kind = "return"
    /\ last.outcome.obj = hist.first
    /\ hist.returned = {hist.first}

\* C3 as stated: a call on a class other than the stored instance's actual
\* class raises ConfigurationTypeMismatchError naming both classes.
C3_AsStated ==
    (calls > 0 /\ last.before # 0 /\ StoredClassBefore # last.cls) =>
        /\ last.outcome.kind = "ConfigurationTypeMismatchError"
        /\ last.outcome.requested = last.cls
        /\ last.outcome.found = StoredClassBefore

\* C3, amended: a call on a class that the stored instance is not an instance
\* of (its class is neither the requested class nor derived from it) raises
\* the built-in TypeError, whose message names the requested class and the
\* stored instance's class; nothing is returned.
C3_TypeErrorNamesBothClasses ==
    (calls > 0 /\ last.before # 0 /\ ~IsSubclass(StoredClassBefore, last.cls)) =>
        /\ last.outcome.kind = "TypeError"
        /\ last.outcome.requested = last.cls
        /\ last.outcome.found = StoredClassBefore

\* C3 witness: SubConfiguration.get_global_configuration() has raised with a
\* plain Configuration stored.
C3_Witness ==
    /\ calls > 0
    /\ last.before # 0
    /\ last.cls = "SubConfiguration"
    /\ StoredClassBefore = "Configuration"
    /\ last.outcome.kind = "TypeError"

\* C4 as stated: a call on class C returns an object only when the stored
\* instance's class is exactly C, and fails for every other stored class, a
\* strict subclass of C included.
C4_AsStated ==
    (calls > 0 /\ last.before # 0) =>
        (last.outcome.kind = "return" <=> StoredClassBefore = last.cls)

\* C4, amended: a call on class C returns the stored object exactly when that
\* object is an instance of C, that is when its class is C or derived from C;
\* for a stored instance of any other class the call fails with the TypeError.
C4_ReturnsExactlyInstances ==
    calls > 0 =>
        /\ last.outcome.kind = "return" =>
               /\ IsSubclass(heap[last.outcome.obj].cls, last.cls)
               /\ last.before # 0 => last.outcome.obj = last.before
        /\ last.before # 0 =>
               /\ IsSubclass(StoredClassBefore, last.cls) => last.outcome.kind = "return"
               /\ ~IsSubclass(StoredClassBefore, last.cls) => last.outcome.kind = "TypeError"

\* C4 witness: Configuration.get_global_configuration() has returned a stored
\* SubConfiguration instance.
C4_Witness ==
    /\ calls > 0
    /\ last.before # 0
    /\ last.cls = "Configuration"
    /\ StoredClassBefore = "SubConfiguration"
    /\ last.outcome.kind = "return"
    /\ last.outcome.obj = last.before

\* C5: when the slot was first filled by the setter with instance X (and no
\* other instance is installed through the setter afterwards), no get
\* constructs an instance, the slot still holds X, every successful get has
\* returned X, and a caller whose class X is an instance of receives X.
C5_InstalledInstanceKept ==
    (hist.origin = "explicit" /\ hist.reinstalls = 0) =>
        /\ hist.autoBuilt = 0
        /\ handle = hist.first
        /\ heap[handle].origin = "explicit"
        /\ hist.returned \subseteq {hist.first}
        /\ (calls > 0 /\ last.before = hist.first
                /\ IsSubclass(heap[hist.first].cls, last.cls))
               => last.outcome = Returned(hist.first)

\* C5 witness: after an explicit install, a get has returned the installed
\* object and nothing was constructed automatically.
C5_Witness ==
    /\ hist.origin = "explicit"
    /\ hist.reinstalls = 0
    /\ calls > 0
    /\ last.before = hist.first
    /\ last.outcome = Returned(hist.first)
    /\ hist.autoBuilt = 0
    /\ handle = hist.first

\* C10: a get_global_configuration call that raises leaves the slot as it
\* was: still empty after a failed construction, still holding the same
\* instance after the TypeError; no object is created either.
C10_FailedCallLeavesHandle ==
    [][ (calls' # calls /\ last'.outcome.kind # "return") =>
            /\ handle' = handle
            /\ heap' = heap
            /\ last'.outcome.kind = "ValidationError" => handle' = 0
            /\ last'.outcome.kind = "TypeError" => handle' # 0 ]_vars

\* C10 witness: a call failed in construction with the slot empty, a later
\* call constructed the instance, and the last call raised the TypeError with
\* the slot unchanged.
C10_Witness ==
    /\ hist.failed = {"ValidationError", "TypeError"}
    /\ hist.origin = "auto"
    /\ last.outcome.kind = "TypeError"
    /\ handle = last.before

---------------------------------------------------------------------------
(* SpecConc: several threads inside get_global_configuration at once.     *)
(* Nothing in the method holds a lock, so another thread may run between  *)
(* any two of its calls: the test of the slot, cls(), set_configuration,  *)
(* get_configuration and the isinstance test.                             *)

Threads == 1..NumThreads

Idle ==
    [pc |-> "idle", cls |-> "", inst |-> 0, global_instance |-> 0,
     outcome |-> [kind |-> "none"]]

InitConc ==
    /\ env \in AccessorEnvs
    /\ built = NotBuilt
    /\ heap = << >>
    /\ handle = 0
    /\ threads = [t \in Threads |-> Idle]
    /\ calls = 0
    /\ last = NoCall
    /\ hist = NoHist

\* Thread t enters cls.get_global_configuration().
Enter(t, cls) ==
    /\ threads[t].pc = "idle"
    /\ threads' = [threads EXCEPT ![t].pc = "check", ![t].cls = cls]
    /\ UNCHANGED <<env, built, heap, handle, calls, last, hist>>

\* if service_container.get_configuration_if_set() is None:
CheckIfSet(t) ==
    /\ threads[t].pc = "check"
    /\ threads' = [threads EXCEPT
           ![t].pc = IF ServiceGetIfSet(handle) = 0 THEN "construct" ELSE "get"]
    /\ UNCHANGED <<env, built, heap, handle, calls, last, hist>>

\* cls(): a new object, or the ValidationError that ends the call.
ConstructInstance(t) ==
    /\ threads[t].pc = "construct"
    /\ LET r == Construct(env) IN
       IF r.status = "error"
       THEN /\ threads' = [threads EXCEPT
                   ![t].pc = "done", ![t].outcome = ConstructionError(r)]
            /\ heap' = heap
       ELSE /\ heap' = Append(heap, NewObject(threads[t].cls, r.values, "auto"))
            /\ threads' = [threads EXCEPT ![t].pc = "install", ![t].inst = Len(heap')]
    /\ UNCHANGED <<env, built, handle, calls, last, hist>>

\* service_container.set_configuration(<the new object>)
InstallInstance(t) ==
    /\ threads[t].pc = "install"
    /\ handle' = ServiceSet(handle, threads[t].inst)
    /\ threads' = [threads EXCEPT ![t].pc = "get"]
    /\ UNCHANGED <<env, built, heap, calls, last, hist>>

\* global_instance = service_container.get_configuration()
GetInstance(t) ==
    /\ threads[t].pc = "get"
    /\ threads' = [threads EXCEPT
           ![t].pc = "verify", ![t].global_instance = ServiceGet(handle)]
    /\ UNCHANGED <<env, built, heap, handle, calls, last, hist>>

\* if not isinstance(global_instance, cls): raise TypeError(...)
\* return global_instance
VerifyAndReturn(t) ==
    /\ threads[t].pc = "verify"
    /\ LET g == threads[t].global_instance IN
       threads' = [threads EXCEPT
           ![t].pc = "done",
           ![t].outcome = IF ~IsInstance(heap[g], threads[t].cls)
                          THEN TypeErrorOf(threads[t].cls, heap[g])
                          ELSE Returned(g)]
    /\ UNCHANGED <<env, built, heap, handle, calls, last, hist>>

NextConc ==
    \E t \in Threads :
        \/ \E cls \in Classes : Enter(t, cls)
        \/ CheckIfSet(t)
        \/ ConstructInstance(t)
        \/ InstallInstance(t)
        \/ GetInstance(t)
        \/ VerifyAndReturn(t)

SpecConc == InitConc /\ [][NextConc]_vars

---------------------------------------------------------------------------
(* Claim about concurrent first access (SpecConc) *)

\* C1: when the threads all call get_global_configuration on the same class
\* with the slot empty and construction succeeds, then however their steps
\* interleave, exactly one instance is constructed and every caller returns
\* that same instance.
C1_OneInstanceForAllCallers ==
    (/\ \A t \in Threads : threads[t].pc = "done"
     /\ \A t \in Threads : threads[t].cls = "Configuration"
     /\ Construct(env).status = "ok")
    => /\ Len(heap) = 1
       /\ \A t \in Threads : threads[t].outcome = Returned(1)

\* C1 witness: both callers are done and two instances exist; the callers
\* hold different objects.
C1_Witness ==
    /\ \A t \in Threads : threads[t].pc = "done"
    /\ \A t \in Threads : threads[t].cls = "Configuration"
    /\ Len(heap) >= 2
    /\ \E t, u \in Threads :
           /\ threads[t].outcome.kind = "return"
           /\ threads[u].outcome.kind = "return"
           /\ threads[t].outcome.obj # threads[u].outcome.obj

====
